---- MODULE Spec2Model ----
(***************************************************************************)
(* Model of files/ini_file.py: the line-oriented INI editor (class         *)
(* IniFile) and its driver do_ini.                                         *)
(*                                                                         *)
(* A Python str is modelled as a sequence of one-character strings, so     *)
(* that strip(), the two regular expressions, "%s = %s\n" formatting and   *)
(* the list operations that iterate over a str (slice assignment and       *)
(* list.extend) are computed character by character.  self.lines is a      *)
(* sequence of such strs.  Python's None is the value None below.          *)
(*                                                                         *)
(* A character is written as a one-character string when it is ASCII and   *)
(* as the string "U+XXXX" of its code point otherwise, so that the module  *)
(* is ASCII text.                                                          *)
(*                                                                         *)
(* The source runs under the interpreter that /usr/bin/python names.  Two  *)
(* things it does depend on the interpreter's major version: which         *)
(* characters strip() and \s take for whitespace, and whether open()       *)
(* translates line ends.  The version is the variable python, chosen when  *)
(* the program starts and never changed.                                   *)
(***************************************************************************)
EXTENDS Integers, Sequences, FiniteSets

\* ------------------------------------------------------------------------
\* Bounds of the model
\* ------------------------------------------------------------------------
\* greatest number of lines of the file an invocation starts from
MaxLines == 3
\* greatest number of editor calls with freely chosen arguments made on one
\* IniFile object
MaxOps == 1
\* greatest number of times the latest set_option call is made again
MaxRepeats == 1
\* greatest number of lines of the files del_section is studied on
MaxDelLines == 6

\* ------------------------------------------------------------------------
\* Python values
\* ------------------------------------------------------------------------
None == <<"None">>

NL == "\n"

CR == "\r"

\* major version of the interpreter running the module
VARIABLE python

Interpreters == {2, 3}

\* the whitespace of a byte string: string.whitespace, which is also \s of a
\* pattern compiled without flags (U+000B is written as itself)
AsciiSpace == {" ", "\t", NL, "", "\f", CR}

\* the further whitespace of a text string (str.isspace(), and \s of a str
\* pattern): U+001C..U+001F written as themselves, then the code points
\* beyond ASCII
UnicodeSpace ==
    {"", "", "", "",
     "U+0085", "U+00A0", "U+1680",
     "U+2000", "U+2001", "U+2002", "U+2003", "U+2004", "U+2005", "U+2006",
     "U+2007", "U+2008", "U+2009", "U+200A",
     "U+2028", "U+2029", "U+202F", "U+205F", "U+3000"}

\* whether str.strip() removes c and \s matches c: a str is a byte string
\* under Python 2 and a text string under Python 3
IsSpace(c) == c \in AsciiSpace \/ (python = 3 /\ c \in UnicodeSpace)

\* the str a %s conversion renders: str(None) is "None"
Str(x) == IF x = None THEN <<"N", "o", "n", "e">> ELSE x

\* truth value of an argument that is None or a str
Truthy(x) == x # None /\ x # << >>

RECURSIVE LStrip(_)
LStrip(s) ==
    IF s = << >> THEN << >>
    ELSE IF IsSpace(Head(s)) THEN LStrip(Tail(s)) ELSE s

RECURSIVE RStrip(_)
RStrip(s) ==
    IF s = << >> THEN << >>
    ELSE IF IsSpace(s[Len(s)]) THEN RStrip(SubSeq(s, 1, Len(s) - 1)) ELSE s

\* str.strip()
strip(s) == RStrip(LStrip(s))

\* str.startswith(c) for a one-character prefix
startswith(s, c) == Len(s) >= 1 /\ s[1] = c

\* iterating over a str yields its characters, each a str of length one
Chars(s) == [i \in 1..Len(s) |-> <<s[i]>>]

\* ------------------------------------------------------------------------
\* The regular expressions of IniFile.__init__
\* ------------------------------------------------------------------------
NoMatch == [matched |-> FALSE, g1 |-> << >>, g2 |-> << >>]

\* length of the longest prefix of s matching [^\s=]*
RECURSIVE KeyLen(_)
KeyLen(s) ==
    IF s = << >> \/ IsSpace(Head(s)) \/ Head(s) = "=" THEN 0
    ELSE 1 + KeyLen(Tail(s))

\* first index >= i of s that holds no whitespace (Len(s) + 1 when none): \s*
RECURSIVE SkipSpace(_, _)
SkipSpace(s, i) ==
    IF i <= Len(s) /\ IsSpace(s[i]) THEN SkipSpace(s, i + 1) ELSE i

\* longest prefix of s without a newline: (.*)
RECURSIVE UpToNewline(_)
UpToNewline(s) ==
    IF s = << >> \/ Head(s) = NL THEN << >>
    ELSE <<Head(s)>> \o UpToNewline(Tail(s))

\* re.compile('^([^\s=]+)\s*=\s*(.*)').match(line): groups 1 and 2
rx_option(line) ==
    LET k == KeyLen(line)
        e == SkipSpace(line, k + 1)
    IN  IF k >= 1 /\ e <= Len(line) /\ line[e] = "="
        THEN [matched |-> TRUE,
              g1 |-> SubSeq(line, 1, k),
              g2 |-> UpToNewline(SubSeq(line, SkipSpace(line, e + 1), Len(line)))]
        ELSE NoMatch

\* first index >= i of s that holds "]" (0 when none)
RECURSIVE FindClose(_, _)
FindClose(s, i) ==
    IF i > Len(s) THEN 0
    ELSE IF s[i] = "]" THEN i ELSE FindClose(s, i + 1)

\* re.compile('^\[([^\]]+)\]').match(line): group 1
rx_section(line) ==
    LET j == FindClose(line, 2)
    IN  IF startswith(line, "[") /\ j >= 3
        THEN [matched |-> TRUE, g1 |-> SubSeq(line, 2, j - 1), g2 |-> << >>]
        ELSE NoMatch

\* ------------------------------------------------------------------------
\* File content and the line list
\* ------------------------------------------------------------------------
\* universal newlines: "\r\n" and a lone "\r" reach the reader as "\n"
RECURSIVE universal_newlines(_)
universal_newlines(content) ==
    IF content = << >> THEN << >>
    ELSE IF Head(content) = CR
         THEN <<NL>> \o universal_newlines(
                  IF Len(content) >= 2 /\ content[2] = NL
                  THEN Tail(Tail(content)) ELSE Tail(content))
         ELSE <<Head(content)>> \o universal_newlines(Tail(content))

\* the text cut after each newline
RECURSIVE cut_lines(_)
cut_lines(text) ==
    IF text = << >> THEN << >>
    ELSE LET n == CHOOSE i \in 1..Len(text) :
                    /\ text[i] = NL \/ i = Len(text)
                    /\ \A j \in 1..(i - 1) : text[j] # NL
         IN  <<SubSeq(text, 1, n)>> \o cut_lines(SubSeq(text, n + 1, Len(text)))

\* f.readlines() on the file opened by open(filepath): Python 3 opens it as
\* text with universal newlines, Python 2 passes the content through
readlines(content) ==
    cut_lines(IF python = 3 THEN universal_newlines(content) ELSE content)

\* file.writelines(lines): the concatenation of the elements
RECURSIVE writelines(_)
writelines(ls) ==
    IF ls = << >> THEN << >> ELSE Head(ls) \o writelines(Tail(ls))

\* "%s = %s\n" % (option, value)
OptionLine(option, value) == Str(option) \o <<" ", "=", " ">> \o Str(value) \o <<NL>>

\* "[%s]\n" % section
SectionLine(section) == <<"[">> \o Str(section) \o <<"]", NL>>

\* a slice bound clamped to the list, as Python does
Clamp(ls, i) == IF i > Len(ls) THEN Len(ls) ELSE i

\* self.lines[i:i] = text, indices from 0: text is iterated, so every
\* character of it becomes an element of the list
SliceInsert(ls, i, text) ==
    SubSeq(ls, 1, Clamp(ls, i)) \o Chars(text) \o SubSeq(ls, Clamp(ls, i) + 1, Len(ls))

\* self.lines.extend(text): text is iterated as well
Extend(ls, text) == ls \o Chars(text)

\* self.lines[lineno] = text, index from 0
ReplaceLine(ls, lineno, text) == [ls EXCEPT ![lineno + 1] = text]

\* del self.lines[i:j], indices from 0
DelSlice(ls, i, j) == SubSeq(ls, 1, i) \o SubSeq(ls, j + 1, Len(ls))

\* del self.lines[lineno], index from 0
DelLine(ls, lineno) == DelSlice(ls, lineno, lineno + 1)

\* ------------------------------------------------------------------------
\* IniFile
\* ------------------------------------------------------------------------
\* IniFile.__init__: the lines of the file, or [] when there is no file.
\* A file that does not exist is None.
IniFile(content) == IF content = None THEN << >> ELSE readlines(content)

\* IniFile.save: the name filepath is neither a local nor a global of the
\* module (the attribute is self.filepath), so open(filepath) raises
\* NameError before anything is written; the file keeps its content.
save(content, ls) == [raised |-> TRUE, file |-> content]

\* the blank and comment test of get_option and del_option
IsSkipped(line) == Len(line) = 0 \/ startswith(line, "#") \/ startswith(line, ";")

\* IniFile.get_option: the loop from index lineno with cur_section
RECURSIVE get_scan(_, _, _, _, _)
get_scan(ls, section, option, lineno, cur_section) ==
    IF lineno >= Len(ls) THEN None
    ELSE LET line == strip(ls[lineno + 1])
             mo == rx_option(line)
             ms == rx_section(line)
         IN  IF IsSkipped(line)
             THEN get_scan(ls, section, option, lineno + 1, cur_section)
             ELSE IF mo.matched
             THEN IF cur_section = section /\ mo.g1 = option
                  THEN mo.g2
                  ELSE get_scan(ls, section, option, lineno + 1, cur_section)
             ELSE IF ms.matched
             THEN get_scan(ls, section, option, lineno + 1, ms.g1)
             ELSE get_scan(ls, section, option, lineno + 1, cur_section)

get_option(ls, section, option) == get_scan(ls, section, option, 0, None)

\* ins_index = last_opt_line > 0 and last_opt_line + 1 or 0
InsIndex(last_opt_line) == IF last_opt_line > 0 THEN last_opt_line + 1 ELSE 0

\* lineno > 0 and lineno - last_opt_line < 2
TooClose(lineno, last_opt_line) == lineno > 0 /\ lineno - last_opt_line < 2

\* IniFile.set_option: the loop from index lineno.  returned tells whether
\* the loop ended in a return; otherwise cur_section and last_opt_line are
\* the values the loop leaves behind.
RECURSIVE set_scan(_, _, _, _, _, _, _)
set_scan(ls, section, option, value, lineno, cur_section, last_opt_line) ==
    IF lineno >= Len(ls)
    THEN [returned |-> FALSE, lines |-> ls,
          cur_section |-> cur_section, last_opt_line |-> last_opt_line]
    ELSE LET line == strip(ls[lineno + 1])
             mo == rx_option(line)
             ms == rx_section(line)
             done(new) == [returned |-> TRUE, lines |-> new,
                           cur_section |-> cur_section, last_opt_line |-> last_opt_line]
         IN  IF Len(line) = 0
             THEN set_scan(ls, section, option, value, lineno + 1, cur_section, last_opt_line)
             ELSE IF startswith(line, "#") \/ startswith(line, ";")
             THEN set_scan(ls, section, option, value, lineno + 1, cur_section, lineno)
             ELSE IF mo.matched
             THEN IF cur_section = section /\ mo.g1 = option
                  THEN done(ReplaceLine(ls, lineno, OptionLine(option, value)))
                  ELSE set_scan(ls, section, option, value, lineno + 1, cur_section, lineno)
             ELSE IF ms.matched
             THEN IF cur_section = section
                  THEN done(SliceInsert(ls, InsIndex(last_opt_line), OptionLine(option, value)))
                  ELSE set_scan(ls, section, option, value, lineno + 1, ms.g1, lineno)
             ELSE set_scan(ls, section, option, value, lineno + 1, cur_section, last_opt_line)

\* the value of lineno after "for lineno in range(len(self.lines))"
LastLineno(ls) == IF Len(ls) = 0 THEN 0 ELSE Len(ls) - 1

\* the statements of set_option after the loop, section not found
AddSection(ls, section, option, value, last_opt_line) ==
    LET sep == IF TooClose(LastLineno(ls), last_opt_line) THEN Extend(ls, <<NL>>) ELSE ls
    IN  Extend(Extend(sep, SectionLine(section)), OptionLine(option, value))

\* IniFile.set_option: the line list it leaves
set_option(ls, section, option, value) ==
    LET r == set_scan(ls, section, option, value, 0, None, 0)
    IN  IF r.returned THEN r.lines
        ELSE IF r.cur_section # section
        THEN AddSection(ls, section, option, value, r.last_opt_line)
        ELSE SliceInsert(ls, r.last_opt_line + 1, OptionLine(option, value))

\* IniFile.del_option: the loop from index lineno
RECURSIVE del_option_scan(_, _, _, _, _)
del_option_scan(ls, section, option, lineno, cur_section) ==
    IF lineno >= Len(ls) THEN [ret |-> FALSE, lines |-> ls]
    ELSE LET line == strip(ls[lineno + 1])
             mo == rx_option(line)
             ms == rx_section(line)
         IN  IF IsSkipped(line)
             THEN del_option_scan(ls, section, option, lineno + 1, cur_section)
             ELSE IF mo.matched
             THEN IF cur_section = section /\ mo.g1 = option
                  THEN [ret |-> TRUE, lines |-> DelLine(ls, lineno)]
                  ELSE del_option_scan(ls, section, option, lineno + 1, cur_section)
             ELSE IF ms.matched
             THEN del_option_scan(ls, section, option, lineno + 1, ms.g1)
             ELSE del_option_scan(ls, section, option, lineno + 1, cur_section)

del_option(ls, section, option) == del_option_scan(ls, section, option, 0, None)

\* the loop of del_section with its two branches in the other order: any
\* header met after section_start is set ends the section
RECURSIVE del_section_first(_, _, _, _)
del_section_first(ls, section, lineno, section_start) ==
    IF lineno >= Len(ls)
    THEN IF section_start # -1
         THEN [ret |-> TRUE, lines |-> SubSeq(ls, 1, section_start)]
         ELSE [ret |-> FALSE, lines |-> ls]
    ELSE LET ms == rx_section(strip(ls[lineno + 1]))
         IN  IF ms.matched /\ section_start # -1
             THEN [ret |-> TRUE,
                   lines |-> SubSeq(ls, 1, section_start) \o SubSeq(ls, lineno + 1, Len(ls))]
             ELSE IF ms.matched /\ ms.g1 = section
             THEN del_section_first(ls, section, lineno + 1, lineno)
             ELSE del_section_first(ls, section, lineno + 1, section_start)

\* IniFile.del_section: the loop from index lineno; section_start is -1
\* while it is None
RECURSIVE del_section_scan(_, _, _, _)
del_section_scan(ls, section, lineno, section_start) ==
    IF lineno >= Len(ls)
    THEN IF section_start # -1
         THEN [ret |-> TRUE, lines |-> DelSlice(ls, section_start, Len(ls))]
         ELSE [ret |-> FALSE, lines |-> ls]
    ELSE LET ms == rx_section(strip(ls[lineno + 1]))
         IN  IF ms.matched /\ ms.g1 = section
             THEN del_section_scan(ls, section, lineno + 1, lineno)
             ELSE IF ms.matched /\ section_start # -1
             THEN [ret |-> TRUE, lines |-> DelSlice(ls, section_start, lineno)]
             ELSE del_section_scan(ls, section, lineno + 1, section_start)

del_section(ls, section) == del_section_scan(ls, section, 0, -1)

\* ------------------------------------------------------------------------
\* do_ini
\* ------------------------------------------------------------------------
\* The invocation on the file content: the line list it ends with, the
\* value of changed, the file and the backup copy it leaves, and whether it
\* ended in module.fail_json.
do_ini(content, bak, section, option, value, state, backup, check_mode) ==
    LET ini == IniFile(content)
        present == state = "present" /\ Truthy(option)
                      /\ value # get_option(ini, section, option)
        dsec == del_section(ini, section)
        dopt == del_option(ini, section, option)
        edited ==
            IF state = "present"
            THEN [changed |-> present,
                  lines |-> IF present THEN set_option(ini, section, option, value) ELSE ini]
            ELSE IF state = "absent" /\ Truthy(section) /\ ~Truthy(option)
            THEN [changed |-> dsec.ret, lines |-> dsec.lines]
            ELSE IF state = "absent" /\ Truthy(option)
            THEN [changed |-> dopt.ret, lines |-> dopt.lines]
            ELSE [changed |-> FALSE, lines |-> ini]
        writes == edited.changed /\ ~check_mode
        saved == save(content, edited.lines)
    IN  [changed |-> edited.changed,
         lines |-> edited.lines,
         pre |-> ini,
         backup |-> IF writes /\ backup THEN content ELSE bak,
         file |-> IF writes THEN saved.file ELSE content,
         failed |-> writes /\ saved.raised]

\* ------------------------------------------------------------------------
\* Inputs
\* ------------------------------------------------------------------------
SecS == <<"s">>
SecEq == <<"s", "=", "1">>
OptO == <<"o">>
OptP == <<"p">>
Val1 == <<"1">>
ValSp1 == <<" ", "1">>

\* section, option and value arguments
Sections == {None, SecS, SecEq}
Options == {OptO, OptP}
Values == {Val1, ValSp1}

\* the raw lines the initial files are made of: the headers [s], [t] and
\* [s=1], two option lines with the key o, a blank line, a comment and a
\* line that is none of these
Pool ==
    { <<"[", "s", "]", NL>>,
      <<"[", "t", "]", NL>>,
      <<"[", "s", "=", "1", "]", NL>>,
      <<"o", "=", "1", NL>>,
      <<"o", " ", "=", " ", " ", "1", NL>>,
      <<NL>>,
      <<"#", "c", NL>>,
      <<"x", NL>> }

Docs == UNION {[1..k -> Pool] : k \in 0..MaxLines}

\* content whose final line lacks its line terminator
DropFinalNewline(content) ==
    IF content # << >> /\ content[Len(content)] = NL
    THEN SubSeq(content, 1, Len(content) - 1)
    ELSE content

\* files with carriage returns: CRLF line ends, and a lone CR inside a line
CrFiles ==
    { <<"[", "s", "]", CR, NL, "o", "=", "1", CR, NL>>,
      <<"o", "=", "1", CR, "[", "s", "]", NL>> }

\* files with whitespace of a text string: before a header, around a value
SpaceFiles ==
    { <<"U+2003", "[", "s", "]", NL, "o", "=", "1", NL>>,
      <<"o", "U+3000", "=", "U+3000", "1", NL>>,
      <<"o", "=", "", "1", "", NL>> }

\* the files an invocation may find: none, or lines of Pool, the last one
\* with or without its terminator, or one of the files above
Files ==
    {None} \cup {writelines(d) : d \in Docs}
           \cup {DropFinalNewline(writelines(d)) : d \in Docs}
           \cup CrFiles \cup SpaceFiles

\* the lines of the longer files del_section is studied on: headers of two
\* names and an option line
DelPool ==
    { <<"[", "s", "]", NL>>,
      <<"[", "t", "]", NL>>,
      <<"o", "=", "1", NL>> }

DelDocs == UNION {[1..k -> DelPool] : k \in 0..MaxDelLines}

\* the files of Files, and longer files in which a header name can occur
\* three times before a header of another name and once more after it
DelFiles ==
    Files \cup {writelines(d) : d \in DelDocs}
          \cup {DropFinalNewline(writelines(d)) : d \in DelDocs}

\* ------------------------------------------------------------------------
\* State
\* ------------------------------------------------------------------------
VARIABLES
    file,    \* content of the file at the target path, None when absent
    bak,     \* content of the backup copy, None when there is none
    lines,   \* IniFile.lines
    pc,      \* "new": object constructed; "editing": methods called on it;
             \* "done": do_ini has returned or failed
    nops,    \* number of editor calls made on the object
    nrep,    \* number of repetitions among them
    last,    \* the latest call: its name, arguments, results and the line
             \* list it started from
    prior    \* the call before the latest one

vars == <<python, file, bak, lines, pc, nops, nrep, last, prior>>

Call(op, section, option, value, state, check_mode, got, changed, failed, pre) ==
    [op |-> op, section |-> section, option |-> option, value |-> value,
     state |-> state, check_mode |-> check_mode, got |-> got,
     changed |-> changed, failed |-> failed, pre |-> pre]

NoCall == Call("none", None, None, None, "", FALSE, None, FALSE, FALSE, << >>)

Init ==
    /\ python \in Interpreters
    /\ file \in Files
    /\ bak = None
    /\ lines = IniFile(file)
    /\ pc = "new"
    /\ nops = 0
    /\ nrep = 0
    /\ last = NoCall
    /\ prior = NoCall

\* a method call on the object: the call and the line list it leaves
Method(call, ls) ==
    /\ pc \in {"new", "editing"}
    /\ pc' = "editing"
    /\ nops' = nops + 1
    /\ lines' = ls
    /\ prior' = last
    /\ last' = call
    /\ UNCHANGED <<python, file, bak, nrep>>

GetOption ==
    /\ nops - nrep < MaxOps
    /\ \E section \in Sections, option \in Options :
        Method(Call("get_option", section, option, None, "", FALSE,
                    get_option(lines, section, option), FALSE, FALSE, lines),
               lines)

SetOption ==
    /\ nops - nrep < MaxOps
    /\ \E section \in Sections, option \in Options, value \in Values :
        Method(Call("set_option", section, option, value, "", FALSE,
                    None, FALSE, FALSE, lines),
               set_option(lines, section, option, value))

DelOption ==
    /\ nops - nrep < MaxOps
    /\ \E section \in Sections, option \in Options :
        LET r == del_option(lines, section, option)
        IN  Method(Call("del_option", section, option, None, "", FALSE,
                        None, r.ret, FALSE, lines),
                   r.lines)

DelSection ==
    /\ nops - nrep < MaxOps
    /\ \E section \in Sections :
        LET r == del_section(lines, section)
        IN  Method(Call("del_section", section, None, None, "", FALSE,
                        None, r.ret, FALSE, lines),
                   r.lines)

\* one invocation of the module: do_ini on the file
DoIni ==
    /\ pc = "new"
    /\ \E section \in Sections, option \in Options \cup {None}, value \in Values,
          state \in {"present", "absent"}, backup \in BOOLEAN, check_mode \in BOOLEAN :
          LET r == do_ini(file, bak, section, option, value, state, backup, check_mode)
          IN  /\ lines' = r.lines
              /\ file' = r.file
              /\ bak' = r.backup
              /\ last' = Call("do_ini", section, option, value, state, check_mode,
                              None, r.changed, r.failed, r.pre)
    /\ pc' = "done"
    /\ UNCHANGED <<python, nops, nrep, prior>>

\* the caller makes its latest set_option call again, same arguments
SetOptionAgain ==
    /\ pc = "editing"
    /\ last.op = "set_option"
    /\ nrep < MaxRepeats
    /\ pc' = "editing"
    /\ nops' = nops + 1
    /\ nrep' = nrep + 1
    /\ lines' = set_option(lines, last.section, last.option, last.value)
    /\ prior' = last
    /\ last' = [last EXCEPT !.pre = lines]
    /\ UNCHANGED <<python, file, bak>>

Next == GetOption \/ SetOption \/ DelOption \/ DelSection \/ DoIni

\* one module invocation, or editor calls on one IniFile object
Spec == Init /\ [][Next]_vars

\* the first call made on the object is a set_option call
SetOptionFirst == nops = 0 /\ SetOption

NextRepeat == SetOptionFirst \/ SetOptionAgain

\* set_option called, then called again with the same arguments
SpecRepeat == Init /\ [][NextRepeat]_vars

\* the IniFile object constructed on one of the files of DelFiles
InitDelSection ==
    /\ python \in Interpreters
    /\ file \in DelFiles
    /\ bak = None
    /\ lines = IniFile(file)
    /\ pc = "new"
    /\ nops = 0
    /\ nrep = 0
    /\ last = NoCall
    /\ prior = NoCall

\* del_section calls on one IniFile object
SpecDelSection == InitDelSection /\ [][DelSection]_vars

\* ------------------------------------------------------------------------
\* The document as the specification reads it
\* ------------------------------------------------------------------------
Max(S) == CHOOSE x \in S : \A y \in S : y <= x
Min(S) == CHOOSE x \in S : \A y \in S : x <= y

\* the class of a raw line, in the priority order of the data model:
\* blank, comment, section header, option, other
Kind(raw) ==
    LET line == strip(raw)
    IN  IF Len(line) = 0 THEN "blank"
        ELSE IF startswith(line, "#") \/ startswith(line, ";") THEN "comment"
        ELSE IF rx_section(line).matched THEN "section"
        ELSE IF rx_option(line).matched THEN "option"
        ELSE "other"

HeaderName(raw) == rx_section(strip(raw)).g1
OptionKey(raw) == rx_option(strip(raw)).g1
OptionValue(raw) == rx_option(strip(raw)).g2

\* indices (from 1) of the section headers
Headers(ls) == {i \in 1..Len(ls) : Kind(ls[i]) = "section"}

\* indices of the headers that name section
HeadersOf(ls, section) == {i \in Headers(ls) : HeaderName(ls[i]) = section}

\* the current section at line i: the header most recently seen
SectionAt(ls, i) ==
    LET hs == {j \in Headers(ls) : j <= i}
    IN  IF hs = {} THEN None ELSE HeaderName(ls[Max(hs)])

\* indices of the option lines with the key option in the section
OptionLines(ls, section, option) ==
    {i \in 1..Len(ls) : /\ Kind(ls[i]) = "option"
                        /\ OptionKey(ls[i]) = option
                        /\ SectionAt(ls, i) = section}

\* index of the first header after line h, Len(ls) + 1 when there is none
NextHeader(ls, h) ==
    LET later == {j \in Headers(ls) : j > h}
    IN  IF later = {} THEN Len(ls) + 1 ELSE Min(later)

\* every element is a complete line: no newline but a final one
Terminated(ls) ==
    \A i \in 1..Len(ls) :
        /\ ls[i] # << >>
        /\ ls[i][Len(ls[i])] = NL
        /\ \A j \in 1..(Len(ls[i]) - 1) : ls[i][j] # NL

\* no line is both header-shaped and option-shaped
Unambiguous(ls) ==
    \A i \in 1..Len(ls) :
        ~(rx_section(strip(ls[i])).matched /\ rx_option(strip(ls[i])).matched)

\* the line list a later invocation reads back
Reload(ls) == readlines(writelines(ls))

\* ------------------------------------------------------------------------
\* Claims
\* ------------------------------------------------------------------------
\* C1: when the document has a header for the target section and no option
\* line with the target key in it, set_option puts the line
\* "option = value" after the header and after the section's last option
\* or comment line, and before the next header (or at the end of the
\* file).  Stated for documents whose lines are all terminated and
\* unambiguous and that name the target section once.
C1_InsertedAtEndOfSection ==
    ( /\ last.op = "set_option"
      /\ Terminated(last.pre) /\ Unambiguous(last.pre)
      /\ Cardinality(HeadersOf(last.pre, last.section)) = 1
      /\ OptionLines(last.pre, last.section, last.option) = {} )
    => LET pre == last.pre
           post == Reload(lines)
           h == Min(HeadersOf(pre, last.section))
           nxt == NextHeader(pre, h)
           body == {j \in (h + 1)..(nxt - 1) : Kind(pre[j]) \in {"option", "comment"}}
           lo == IF body = {} THEN h ELSE Max(body)
       IN  \E k \in lo..(nxt - 1) :
               post = SubSeq(pre, 1, k) \o <<OptionLine(last.option, last.value)>>
                                        \o SubSeq(pre, k + 1, Len(pre))

\* C2: when the non-empty document has no header for the target section,
\* set_option appends "[section]" and "option = value" at the end, after
\* one added blank line exactly when the last line is not blank.  Stated
\* for documents whose lines are all terminated and unambiguous.
C2_NewSectionSeparatedOnce ==
    ( /\ last.op = "set_option"
      /\ last.section # None
      /\ last.pre # << >>
      /\ Terminated(last.pre) /\ Unambiguous(last.pre)
      /\ HeadersOf(last.pre, last.section) = {} )
    => LET pre == last.pre
           sep == IF Kind(pre[Len(pre)]) = "blank" THEN << >> ELSE <<NL>>
       IN  writelines(lines) =
               writelines(pre) \o sep \o SectionLine(last.section)
                               \o OptionLine(last.option, last.value)

\* C3 as first stated: when the document has a header named section,
\* del_section returns True and removes exactly the lines from the first
\* such header up to, not including, the first later header of any name
\* (or the end), also when the name occurs a second time.
C3_FirstSectionRemoved ==
    (last.op = "del_section" /\ HeadersOf(last.pre, last.section) # {})
    => LET pre == last.pre
           h == Min(HeadersOf(pre, last.section))
       IN  /\ last.changed
           /\ lines = DelSlice(pre, h - 1, NextHeader(pre, h) - 1)

\* index of the first header after line h that carries another name than
\* section, Len(ls) + 1 when there is none
NextOtherHeader(ls, section, h) ==
    LET later == {j \in Headers(ls) : j > h /\ HeaderName(ls[j]) # section}
    IN  IF later = {} THEN Len(ls) + 1 ELSE Min(later)

\* C3: when the document has a header named section, del_section returns
\* True and removes exactly one block of lines: it ends before the first
\* header of another name that follows the first header named section (or
\* at the end of the file), and it starts at the last header named section
\* before that point; every other line is kept, in order.  So the earlier
\* headers named section stay with their lines, and so does every line from
\* that header of another name on, later headers named section included.
C3_LastOfRunRemoved ==
    (last.op = "del_section" /\ HeadersOf(last.pre, last.section) # {})
    => LET pre == last.pre
           e == NextOtherHeader(pre, last.section, Min(HeadersOf(pre, last.section)))
           start == Max({j \in HeadersOf(pre, last.section) : j < e})
       IN  /\ last.changed
           /\ lines = DelSlice(pre, start - 1, e - 1)
           /\ Len(lines) = Len(pre) - (e - start)
           /\ \A j \in 1..(start - 1) : lines[j] = pre[j]
           /\ \A j \in e..Len(pre) : lines[j - (e - start)] = pre[j]
           /\ HeadersOf(lines, last.section)
                  = {j \in HeadersOf(pre, last.section) : j < start}
                    \cup {j - (e - start) : j \in {k \in HeadersOf(pre, last.section) : k > e}}

\* C3 happens: the name occurs three times before a header of another name
\* and once more after it, and del_section has removed the third header's
\* block, which is neither the first header's block nor the second's
C3_Witness ==
    LET pre == last.pre
        hs == HeadersOf(pre, last.section)
        e == NextOtherHeader(pre, last.section, Min(hs))
        second == Min(hs \ {Min(hs)})
    IN  /\ last.op = "del_section"
        /\ last.changed
        /\ hs # {}
        /\ Cardinality({j \in hs : j < e}) = 3
        /\ e <= Len(pre)
        /\ \E j \in hs : j > e
        /\ Cardinality(HeadersOf(lines, last.section)) = 3
        /\ lines # DelSlice(pre, Min(hs) - 1, NextHeader(pre, Min(hs)) - 1)
        /\ lines # DelSlice(pre, second - 1, NextHeader(pre, second) - 1)

\* C4: after a present-state do_ini, a second do_ini with the same
\* arguments on the re-loaded result finds the value, returns
\* changed = False and leaves the document as it is.
C4_PresentIsIdempotent ==
    (last.op = "do_ini" /\ last.state = "present" /\ Truthy(last.option))
    => LET content == writelines(lines)
           again == do_ini(content, bak, last.section, last.option, last.value,
                           "present", FALSE, last.check_mode)
       IN  /\ get_option(IniFile(content), last.section, last.option) = last.value
           /\ ~again.changed
           /\ again.lines = IniFile(content)

\* C5: when get_option already returns value, a second set_option call
\* with the same arguments leaves the serialized content as the first call
\* left it, whatever the document.
C5_RepeatedSetAnyDocument ==
    ( /\ nrep >= 1
      /\ last.op = "set_option" /\ prior.op = "set_option"
      /\ get_option(prior.pre, last.section, last.option) = last.value )
    => writelines(lines) = writelines(last.pre)

\* C6: an invocation not in check mode that computes changed = True ends
\* with the file holding the concatenation of the final line list, and not
\* in the failure report.
C6_ChangedIsSaved ==
    (last.op = "do_ini" /\ last.changed /\ ~last.check_mode)
    => (file = writelines(lines) /\ ~last.failed)

\* C7: when two or more option lines carry the key in the section,
\* del_option returns True and removes exactly the first of them.
C7_FirstOccurrenceRemoved ==
    ( /\ last.op = "del_option"
      /\ Cardinality(OptionLines(last.pre, last.section, last.option)) >= 2 )
    => /\ last.changed
       /\ lines = DelLine(last.pre,
                          Min(OptionLines(last.pre, last.section, last.option)) - 1)

\* C8: the serialized document after set_option is the one before it with
\* one line replaced by "option = value", or with new text inserted at one
\* line boundary; every other line is still there, unchanged and in order.
C8_SetTouchesOnePlace ==
    (last.op = "set_option")
    => LET pre == Reload(last.pre)
           post == Reload(lines)
           n == Len(pre)
           m == Len(post) - n
       IN  \/ \E i \in 1..n :
                post = [pre EXCEPT ![i] = OptionLine(last.option, last.value)]
           \/ /\ m >= 1
              /\ \E k \in 0..n :
                    /\ SubSeq(post, 1, k) = SubSeq(pre, 1, k)
                    /\ SubSeq(post, k + m + 1, n + m) = SubSeq(pre, k + 1, n)

\* C9: a line that is both header-shaped and option-shaped counts as a
\* section header that changes the current section, never as an option
\* line: get_option and del_option find exactly the option lines of the
\* document read with headers first.
C9_HeaderBeforeOption ==
    LET found == OptionLines(last.pre, last.section, last.option)
    IN  /\ last.op = "get_option"
            => last.got = IF found = {} THEN None
                          ELSE OptionValue(last.pre[Min(found)])
        /\ last.op = "del_option" => (last.changed <=> found # {})

\* C10: after set_option, del_option or del_section every element of the
\* line list is one complete raw line, ending with its terminator.  Stated
\* for calls that start from a list of terminated lines.
C10_ElementsAreLines ==
    ( /\ last.op \in {"set_option", "del_option", "del_section"}
      /\ Terminated(last.pre) )
    => Terminated(lines)

\* C11: get_option never changes the line list; del_option returns False
\* exactly when the section holds no option line with the key, and
\* del_section returns False exactly when no header carries the name; a
\* call that returns False leaves the line list as it was.
C11_AbsenceWithoutMutation ==
    /\ last.op = "get_option" => lines = last.pre
    /\ last.op = "del_option"
          => (~last.changed <=> OptionLines(last.pre, last.section, last.option) = {})
    /\ last.op = "del_section"
          => (~last.changed <=> HeadersOf(last.pre, last.section) = {})
    /\ (last.op \in {"del_option", "del_section"} /\ ~last.changed)
          => lines = last.pre

\* C12: when do_ini returns changed = True, the serialized line list it
\* ends with differs from the one it loaded.  Stated for calls that
\* return, that is, calls in which save() is not reached.
C12_ChangedMeansMutated ==
    (last.op = "do_ini" /\ last.changed /\ ~last.failed)
    => writelines(lines) # writelines(last.pre)

\* C13: on the re-loaded result of set_option, get_option returns for every
\* other pair of section and option what it returned before the call.
\* Stated for documents that are unambiguous before and after the call.
C13_SetLeavesOtherPairs ==
    ( /\ last.op = "set_option"
      /\ Unambiguous(last.pre) /\ Unambiguous(Reload(lines)) )
    => \A section \in Sections, option \in Options :
           <<section, option>> # <<last.section, last.option>>
           => get_option(Reload(lines), section, option)
                  = get_option(last.pre, section, option)

====
